---- MODULE Spec2Model ----
(***************************************************************************)
(* Second_Brain: the sentence-aware chunker (src/agents/ingest_agent.py)   *)
(* and the lexical top-k fallback search (src/agents/retriever_agent.py).  *)
(*                                                                         *)
(* A text is a sequence of one-character strings.  Python positions are    *)
(* 0-based; PySlice and RFind take and return Python positions.            *)
(***************************************************************************)
EXTENDS Integers, Sequences, FiniteSets, TLC

\* ------------------------------------------------------------- bounds
MaxLen == 4         \* longest text over the full alphabet
MaxHead == 5        \* longest run of letters put in front of a tail
MaxTail == 5        \* longest tail over letters, full stop and space
MaxChunkSize == 5   \* largest chunk_size_chars
MaxMinChunk == 2    \* largest min_chunk_chars
MaxSeed == 0        \* the uuid4 streams: the bits of 0..MaxSeed
MaxCalls == 2       \* process_text calls in one behaviour
MaxQueryLen == 2    \* longest query
MaxCorpus == 3      \* most chunks a search reads
MaxTopK == 2        \* largest top_k

\* ------------------------------------------------------------ alphabet
Whitespace == {" ", "\t"}
SentenceEnd == {".", "!", "?"}
Alphabet == {"a", ".", " ", "\t"}
TailAlphabet == {"a", ".", " "}

SearchAlphabet == {"a", "A", " "}

Min(a, b) == IF a < b THEN a ELSE b
Max(a, b) == IF a > b THEN a ELSE b

Strs(A, n) == UNION {[1..k -> A] : k \in 0..n}
Rep(c, n) == [i \in 1..n |-> c]

Texts == Strs(Alphabet, MaxLen)
         \cup {Rep("a", h) \o t : h \in 0..MaxHead, t \in Strs(TailAlphabet, MaxTail)}

\* ------------------------------------------------------ Python strings
IsSpace(c) == c \in Whitespace

\* s[a:b]
PySlice(s, a, b) ==
  LET n == Len(s)
      lo == IF a < 0 THEN Max(n + a, 0) ELSE Min(a, n)
      hi == IF b < 0 THEN Max(n + b, 0) ELSE Min(b, n)
  IN SubSeq(s, lo + 1, hi)

RECURSIVE LStrip(_)
LStrip(s) == IF s # <<>> /\ IsSpace(Head(s)) THEN LStrip(Tail(s)) ELSE s

RECURSIVE RStrip(_)
RStrip(s) ==
  IF s # <<>> /\ IsSpace(s[Len(s)]) THEN RStrip(SubSeq(s, 1, Len(s) - 1)) ELSE s

\* str.strip()
Strip(s) == RStrip(LStrip(s))

\* s.rfind(ch, start, end): the highest position in [start, end) holding ch, or -1
RFind(s, ch, start, end) ==
  LET n == Len(s)
      lo == IF start < 0 THEN Max(n + start, 0) ELSE Min(start, n)
      hi == IF end < 0 THEN Max(n + end, 0) ELSE Min(end, n)
      hits == {i \in lo..(hi - 1) : s[i + 1] = ch}
  IN IF hits = {} THEN -1 ELSE CHOOSE i \in hits : \A j \in hits : j <= i

\* " ".join(seq)
RECURSIVE JoinSpace(_)
JoinSpace(seq) ==
  IF seq = <<>> THEN <<>>
  ELSE IF Len(seq) = 1 THEN seq[1]
  ELSE seq[1] \o <<" ">> \o JoinSpace(Tail(seq))

\* the text with every whitespace character removed
RECURSIVE NoSpace(_)
NoSpace(s) ==
  IF s = <<>> THEN <<>>
  ELSE IF IsSpace(Head(s)) THEN NoSpace(Tail(s))
  ELSE <<Head(s)>> \o NoSpace(Tail(s))

\* ------------------------------------------------- sentence splitting
\* the last position (1-based) of the whitespace run that starts at i
RECURSIVE RunEnd(_, _)
RunEnd(s, i) == IF i < Len(s) /\ IsSpace(s[i + 1]) THEN RunEnd(s, i + 1) ELSE i

\* _SENTENCE_SPLIT_RE.split(s): cut at each whitespace run that follows . ! or ?
RECURSIVE ReSplit(_, _, _)
ReSplit(s, from, i) ==
  IF i > Len(s) THEN <<SubSeq(s, from, Len(s))>>
  ELSE IF i > 1 /\ s[i - 1] \in SentenceEnd /\ IsSpace(s[i])
       THEN <<SubSeq(s, from, i - 1)>> \o ReSplit(s, RunEnd(s, i) + 1, RunEnd(s, i) + 1)
       ELSE ReSplit(s, from, i + 1)

RECURSIVE StripNonEmpty(_)
StripNonEmpty(seq) ==
  IF seq = <<>> THEN <<>>
  ELSE IF Strip(Head(seq)) # <<>> THEN <<Strip(Head(seq))>> \o StripNonEmpty(Tail(seq))
  ELSE StripNonEmpty(Tail(seq))

_split_into_sentences(text) == StripNonEmpty(ReSplit(Strip(text), 1, 1))

\* ---------------------------------------------------------------- state
VARIABLES
  chunk_size_chars,   \* IngestAgent.chunk_size_chars
  min_chunk_chars,    \* IngestAgent.min_chunk_chars
  pc,                 \* where the current process_text call stands
  text,               \* its argument
  seed,               \* the uuid4 stream of the call
  sentences,          \* _split_into_sentences(text)
  chunks,             \* the chunks as emitted, before the merge pass
  result,             \* the list of chunks the call returned
  parent,             \* the chunk whose text is being chunked again, or <<>>
  calls,              \* process_text calls made so far
  data_dir_exists,    \* os.path.exists(DATA_DIR)
  spc,                \* where the current _local_text_search call stands
  query,              \* its argument query
  top_k,              \* its argument top_k
  corpus,             \* the chunks read so far, in scan order
  heap,               \* the bounded heap of (score, tie, chunk_obj)
  tie_counter,        \* the next value of itertools.count()
  results,            \* the list the call returned
  fpc,                \* where the current process_file_bytes call stands
  ftype,              \* detect_file_type_from_bytes(file_bytes, filename)
  pages,              \* the texts the parser returned
  p_idx,              \* the index of the next page of the loop
  result_chunks,      \* the chunks collected so far
  lpc,                \* where the current _split_long_text call stands
  long_text,          \* its argument
  split_start,        \* its local start
  split_end,          \* its local end
  split_parts         \* its local parts

ingest_vars ==
  <<chunk_size_chars, min_chunk_chars, pc, text, seed, sentences, chunks, result,
    parent, calls>>

search_vars ==
  <<data_dir_exists, spc, query, top_k, corpus, heap, tie_counter, results>>

file_vars == <<fpc, ftype, pages, p_idx, result_chunks>>

split_vars == <<lpc, long_text, split_start, split_end, split_parts>>

vars == <<ingest_vars, search_vars, file_vars, split_vars>>

NoPage == -1          \* page None
SourceId == "doc"

\* uuid.uuid4().hex[:8] of the n-th draw (n = 0, 1, ...) of the stream
Uuid4Hex(sd, n) == (sd \div (2 ^ n)) % 2

\* the chunk record built at each chunks.append
MkChunk(source_id, idx, t, page, hex) ==
  [id |-> <<source_id, "chunk", idx, hex>>,
   text |-> t,
   meta |-> [source_id |-> source_id, chunk_index |-> idx, page |-> page,
             char_len |-> Len(t)]]

\* --------------------------------------------------- _split_long_text
\* one pass of the while loop: the slice end for the window that starts at start
SliceEnd(t, start) ==
  LET n == Len(t)
      end == Min(start + chunk_size_chars, n)
      last_space == RFind(t, " ", start, end)
  IN IF end < n /\ last_space > start THEN last_space ELSE end

\* SplitLoop with the next window started one position after the slice end
RECURSIVE SplitLoopSkipsSeparator(_, _, _)
SplitLoopSkipsSeparator(t, start, parts) ==
  IF ~(start < Len(t)) THEN parts
  ELSE LET end == SliceEnd(t, start)
           part == Strip(PySlice(t, start, end))
       IN SplitLoopSkipsSeparator(t, end + 1,
                                  IF part # <<>> THEN Append(parts, part) ELSE parts)

RECURSIVE SplitLoop(_, _, _)
SplitLoop(t, start, parts) ==
  IF ~(start < Len(t)) THEN parts
  ELSE LET end == SliceEnd(t, start)
           part == Strip(PySlice(t, start, end))
       IN SplitLoop(t, end, IF part # <<>> THEN Append(parts, part) ELSE parts)

_split_long_text(t) ==
  IF Len(t) <= chunk_size_chars THEN <<t>> ELSE SplitLoop(t, 0, <<>>)

\* ------------------------------------- _aggregate_sentences_to_chunks
\* chunks.append(...) ; idx += 1, taken only when the text is not empty
Emit(st, t, source_id, page, sd) ==
  IF t = <<>> THEN st
  ELSE [st EXCEPT
          !.chunks = Append(@, MkChunk(source_id, st.idx, t, page,
                                       Uuid4Hex(sd, Len(st.chunks)))),
          !.idx = @ + 1]

RECURSIVE EmitParts(_, _, _, _, _)
EmitParts(st, parts, source_id, page, sd) ==
  IF parts = <<>> THEN st
  ELSE EmitParts(Emit(st, Head(parts), source_id, page, sd), Tail(parts),
                 source_id, page, sd)

\* the buffer takes the sentence when the running length stays within the limit
Fits(buffer_len, s_len) == buffer_len + s_len + 1 <= chunk_size_chars

\* the body of "for sent in sentences"
AggStep(st, sent, source_id, page, sd) ==
  LET s_len == Len(sent) IN
  IF s_len > chunk_size_chars
  THEN LET flushed ==
             IF st.buffer # <<>>
             THEN [Emit(st, Strip(JoinSpace(st.buffer)), source_id, page, sd)
                     EXCEPT !.buffer = <<>>, !.buffer_len = 0]
             ELSE st
       IN EmitParts(flushed, _split_long_text(sent), source_id, page, sd)
  ELSE IF Fits(st.buffer_len, s_len)
  THEN [st EXCEPT !.buffer = Append(@, sent), !.buffer_len = @ + s_len + 1]
  ELSE [Emit(st, Strip(JoinSpace(st.buffer)), source_id, page, sd)
          EXCEPT !.buffer = <<sent>>, !.buffer_len = s_len + 1]

RECURSIVE AggLoop(_, _, _, _, _)
AggLoop(st, sents, source_id, page, sd) ==
  IF sents = <<>> THEN st
  ELSE AggLoop(AggStep(st, Head(sents), source_id, page, sd), Tail(sents),
               source_id, page, sd)

\* the chunks list after the loop and the last flush
EmittedChunks(sents, source_id, page, sd) ==
  LET st == AggLoop([chunks |-> <<>>, buffer |-> <<>>, buffer_len |-> 0, idx |-> 0],
                    sents, source_id, page, sd)
  IN IF st.buffer # <<>>
     THEN Emit(st, Strip(JoinSpace(st.buffer)), source_id, page, sd).chunks
     ELSE st.chunks

\* CanMerge with the size test made strict
CanMergeStrict(prev_len, c_len) ==
  prev_len < min_chunk_chars /\ (prev_len + 1 + c_len) < chunk_size_chars

\* CanMerge without the size test
CanMergeNoLimit(prev_len, c_len) == prev_len < min_chunk_chars

\* merge only if prev is small and the merged result stays within the limit
CanMerge(prev_len, c_len) ==
  prev_len < min_chunk_chars /\ (prev_len + 1 + c_len) <= chunk_size_chars

\* Absorb with the id and the chunk_index of the absorbed chunk taken over
AbsorbTakesLaterIdentity(prev, c) ==
  LET t == Strip(prev.text \o <<" ">> \o c.text)
  IN [prev EXCEPT !.text = t, !.meta.char_len = Len(t), !.id = c.id,
                  !.meta.chunk_index = c.meta.chunk_index]

\* Absorb with char_len left as it was
AbsorbKeepsCharLen(prev, c) ==
  LET t == Strip(prev.text \o <<" ">> \o c.text)
  IN [prev EXCEPT !.text = t]

\* prev after it absorbed c: text and char_len change, id and chunk_index stay
Absorb(prev, c) ==
  LET t == Strip(prev.text \o <<" ">> \o c.text)
  IN [prev EXCEPT !.text = t, !.meta.char_len = Len(t)]

\* MergeStep with the chunks renumbered as they are appended
MergeStepRenumbers(merged, c) ==
  IF merged # <<>>
     /\ CanMerge(merged[Len(merged)].meta.char_len, c.meta.char_len)
  THEN [merged EXCEPT ![Len(merged)] = Absorb(@, c)]
  ELSE Append(merged, [c EXCEPT !.meta.chunk_index = Len(merged)])

\* the body of "for c in chunks" of the merge pass
MergeStep(merged, c) ==
  IF merged # <<>>
     /\ CanMerge(merged[Len(merged)].meta.char_len, c.meta.char_len)
  THEN [merged EXCEPT ![Len(merged)] = Absorb(@, c)]
  ELSE Append(merged, c)

RECURSIVE MergePass(_, _)
MergePass(merged, cs) ==
  IF cs = <<>> THEN merged ELSE MergePass(MergeStep(merged, Head(cs)), Tail(cs))

\* ------------------------------------------------------- process_text
\* Fallback with the text stripped
FallbackStripped(t, source_id, sd) ==
  <<MkChunk(source_id, 0, Strip(t), NoPage, Uuid4Hex(sd, 0))>>

\* the single chunk returned when there is no sentence
Fallback(t, source_id, sd) == <<MkChunk(source_id, 0, t, NoPage, Uuid4Hex(sd, 0))>>

\* no search is running
SearchIdle ==
  /\ data_dir_exists = TRUE
  /\ spc = "idle"
  /\ query = <<>>
  /\ top_k = 0
  /\ corpus = <<>>
  /\ heap = {}
  /\ tie_counter = 0
  /\ results = <<>>

\* no process_file_bytes call is running
FileIdle ==
  /\ fpc = "idle"
  /\ ftype = "text"
  /\ pages = <<>>
  /\ p_idx = 0
  /\ result_chunks = <<>>

\* no _split_long_text call is being followed
SplitIdle ==
  /\ lpc = "idle"
  /\ long_text = <<>>
  /\ split_start = 0
  /\ split_end = 0
  /\ split_parts = <<>>

TypeOK ==
  /\ chunk_size_chars \in 1..MaxChunkSize
  /\ min_chunk_chars \in 0..MaxMinChunk
  /\ pc \in {"idle", "aggregate", "merge", "done"}
  /\ calls \in 0..MaxCalls

InitIngest ==
  /\ chunk_size_chars \in 1..MaxChunkSize
  /\ min_chunk_chars \in 0..MaxMinChunk
  /\ pc = "idle"
  /\ text = <<>>
  /\ seed = 0
  /\ sentences = <<>>
  /\ chunks = <<>>
  /\ result = <<>>
  /\ parent = <<>>
  /\ calls = 0
  /\ SearchIdle
  /\ FileIdle
  /\ SplitIdle

\* process_text up to the sentence split: the fallback returns at once
Begin(t, sd, from) ==
  /\ text' = t
  /\ seed' = sd
  /\ parent' = from
  /\ calls' = calls + 1
  /\ sentences' = _split_into_sentences(t)
  /\ chunks' = <<>>
  /\ IF _split_into_sentences(t) = <<>>
     THEN /\ result' = Fallback(t, SourceId, sd)
          /\ pc' = "done"
     ELSE /\ result' = <<>>
          /\ pc' = "aggregate"
  /\ UNCHANGED <<chunk_size_chars, min_chunk_chars>>
  /\ UNCHANGED <<search_vars, file_vars, split_vars>>

\* a caller hands a text to process_text
ProcessText ==
  /\ pc = "idle"
  /\ \E t \in Texts, sd \in 0..MaxSeed : Begin(t, sd, <<>>)

\* the aggregation loop and the last flush
Aggregate ==
  /\ pc = "aggregate"
  /\ chunks' = EmittedChunks(sentences, SourceId, NoPage, seed)
  /\ pc' = "merge"
  /\ UNCHANGED <<chunk_size_chars, min_chunk_chars, text, seed, sentences, result,
                 parent, calls>>
  /\ UNCHANGED <<search_vars, file_vars, split_vars>>

\* the merge pass and the return
Merge ==
  /\ pc = "merge"
  /\ result' = MergePass(<<>>, chunks)
  /\ pc' = "done"
  /\ UNCHANGED <<chunk_size_chars, min_chunk_chars, text, seed, sentences, chunks,
                 parent, calls>>
  /\ UNCHANGED <<search_vars, file_vars, split_vars>>

\* the text of a returned chunk is handed to process_text again
Rechunk ==
  /\ pc = "done"
  /\ calls < MaxCalls
  /\ \E i \in 1..Len(result), sd \in 0..MaxSeed : Begin(result[i].text, sd, <<result[i]>>)

NextIngest == ProcessText \/ Aggregate \/ Merge \/ Rechunk

SpecIngest == InitIngest /\ [][NextIngest]_vars

\* ===================================================== chunker claims
Done == pc = "done"

CharLen(c) == c.meta.char_len
ChunkIndex(c) == c.meta.chunk_index

\* the text fields of a list of chunks, one after the other
RECURSIVE ConcatTexts(_)
ConcatTexts(cs) == IF cs = <<>> THEN <<>> ELSE Head(cs).text \o ConcatTexts(Tail(cs))

\* the text fields of chunks[a..b] joined by single spaces
JoinedTexts(cs, a, b) == JoinSpace([k \in 1..(b - a + 1) |-> cs[a + k - 1].text])

\* some sentence went through _split_long_text
SomeSentenceSplit == \E k \in 1..Len(sentences) : Len(sentences[k]) > chunk_size_chars

\* the merge pass absorbed at least one chunk
SomeChunkAbsorbed == Len(result) < Len(chunks)

\* C1: every chunk a process_text call returns, the fallback chunk included, has
\* len(text) <= chunk_size_chars and char_len <= chunk_size_chars.
C1_EveryChunkWithinLimit ==
  Done => \A i \in 1..Len(result) :
            /\ Len(result[i].text) <= chunk_size_chars
            /\ CharLen(result[i]) <= chunk_size_chars

\* C2: the returned texts, concatenated in order and with whitespace removed, are
\* the input with whitespace removed.
C2_NonWhitespacePreserved ==
  Done => NoSpace(ConcatTexts(result)) = NoSpace(text)

\* C2 witness: a call that split an oversized sentence, merged chunks and still
\* returned several chunks.
C2_Witness ==
  Done /\ SomeSentenceSplit /\ SomeChunkAbsorbed /\ Len(result) >= 2

\* C3: chunking the text of a returned chunk again, when it is within the limit,
\* returns exactly that one chunk text.
C3_RechunkIsIdentity ==
  (Done /\ parent # <<>> /\ Len(parent[1].text) <= chunk_size_chars)
    => (Len(result) = 1 /\ result[1].text = parent[1].text)

\* C4: no two adjacent returned chunks are both shorter than min_chunk_chars and
\* small enough to be merged within chunk_size_chars.
C4_NoMergeablePairLeft ==
  Done => \A i \in 1..(Len(result) - 1) :
            ~(/\ CharLen(result[i]) < min_chunk_chars
              /\ CharLen(result[i + 1]) < min_chunk_chars
              /\ CharLen(result[i]) + 1 + CharLen(result[i + 1]) <= chunk_size_chars)

\* C4 witness: the merge pass ran over several chunks and left two adjacent chunks
\* that are both shorter than min_chunk_chars.
C4_Witness ==
  /\ Done /\ Len(chunks) >= 2
  /\ \E i \in 1..(Len(result) - 1) :
       /\ CharLen(result[i]) < min_chunk_chars
       /\ CharLen(result[i + 1]) < min_chunk_chars

\* C5: process_text returns at least one chunk, and for an empty or whitespace-only
\* input exactly one chunk: index 0, page None, the input verbatim, its length.
C5_NeverEmptyAndVerbatimFallback ==
  Done => /\ Len(result) >= 1
          /\ Strip(text) = <<>> =>
               /\ Len(result) = 1
               /\ ChunkIndex(result[1]) = 0
               /\ result[1].meta.page = NoPage
               /\ result[1].text = text
               /\ CharLen(result[1]) = Len(text)

\* C5 witness: a call on a non-empty whitespace-only input has returned.
C5_Witness == Done /\ text # <<>> /\ Strip(text) = <<>>

\* C6: an input with more non-whitespace characters than chunk_size_chars comes
\* back as at least two chunks.
C6_LongInputGivesTwoChunks ==
  (Done /\ Len(NoSpace(text)) > chunk_size_chars) => Len(result) >= 2

\* C6 witness: such an input, chunked with a merge, has returned.
C6_Witness ==
  Done /\ Len(NoSpace(text)) > chunk_size_chars /\ SomeChunkAbsorbed

\* C7: the returned chunk_index values increase strictly, and every returned chunk
\* still carries the id and the chunk_index it was emitted with.
C7_IndicesIncreaseAndSurviveMerge ==
  (Done /\ sentences # <<>>) =>
    /\ \A i \in 1..(Len(result) - 1) :
         ChunkIndex(result[i]) < ChunkIndex(result[i + 1])
    /\ \A i \in 1..Len(result) :
         \E k \in 1..Len(chunks) :
           /\ chunks[k].id = result[i].id
           /\ ChunkIndex(chunks[k]) = ChunkIndex(result[i])
           /\ SubSeq(result[i].text, 1, Len(chunks[k].text)) = chunks[k].text

\* C7 witness: a returned chunk that absorbed others, followed by another chunk.
C7_Witness ==
  /\ Done /\ Len(result) >= 2
  /\ \E i \in 1..(Len(result) - 1) :
       ChunkIndex(result[i + 1]) > ChunkIndex(result[i]) + 1

\* C8 as stated: the returned chunk_index values are 0, 1, ..., n-1.
C8_IndicesContiguous ==
  Done => \A i \in 1..Len(result) : ChunkIndex(result[i]) = i - 1

\* the index after the last emitted chunk that returned chunk i holds
NextIndex(i) ==
  IF i < Len(result) THEN ChunkIndex(result[i + 1]) ELSE Len(chunks)

\* C8 amended: the first index is 0 and each returned chunk holds the emitted
\* chunks from its own index up to the next returned index, so a chunk that
\* absorbed m chunks is followed by a gap of m indices.
C8_GapsWhereChunksWereAbsorbed ==
  (Done /\ sentences # <<>>) =>
    /\ ChunkIndex(result[1]) = 0
    /\ \A i \in 1..Len(result) :
         /\ NextIndex(i) > ChunkIndex(result[i])
         /\ result[i].text = JoinedTexts(chunks, ChunkIndex(result[i]) + 1, NextIndex(i))

\* C8 witness: a returned list whose indices have a gap after a merge.
C8_Witness ==
  /\ Done /\ SomeChunkAbsorbed
  /\ \E i \in 1..Len(result) : ChunkIndex(result[i]) # i - 1

\* ============================================== _local_text_search
\* str.lower(), character by character
LowerChar(c) == IF c = "A" THEN "a" ELSE c
Lower(s) == [i \in 1..Len(s) |-> LowerChar(s[i])]

\* \w
IsWordChar(c) == c \in {"a", "A", "b"}

\* s.count(sub): the occurrences of sub found left to right without overlap
RECURSIVE CountFrom(_, _, _)
CountFrom(s, sub, i) ==
  IF i + Len(sub) - 1 > Len(s) THEN 0
  ELSE IF SubSeq(s, i, i + Len(sub) - 1) = sub
       THEN 1 + CountFrom(s, sub, i + Len(sub))
       ELSE CountFrom(s, sub, i + 1)

\* the empty string is found at every position, the end included
Count(s, sub) == IF sub = <<>> THEN Len(s) + 1 ELSE CountFrom(s, sub, 1)

\* the last position (1-based) of the run of word characters that starts at i
RECURSIVE WordEnd(_, _)
WordEnd(s, i) == IF i < Len(s) /\ IsWordChar(s[i + 1]) THEN WordEnd(s, i + 1) ELSE i

\* re.findall(r"\w+", s) from position i on
RECURSIVE FindWords(_, _)
FindWords(s, i) ==
  IF i > Len(s) THEN <<>>
  ELSE IF IsWordChar(s[i])
       THEN <<SubSeq(s, i, WordEnd(s, i))>> \o FindWords(s, WordEnd(s, i) + 1)
       ELSE FindWords(s, i + 1)

\* q = query.strip().lower()
Normalize(qr) == Lower(Strip(qr))

Terms(q) == FindWords(q, 1)

RECURSIVE TermHits(_, _)
TermHits(t, terms) ==
  IF terms = <<>> THEN 0 ELSE Count(t, Head(terms)) + TermHits(t, Tail(terms))

\* Score with a phrase occurrence counted once, like a term
ScorePhraseUnweighted(qr, raw) ==
  LET q == Normalize(qr)
      t == Lower(raw)
  IN IF t = <<>> THEN 0 ELSE Count(t, q) + TermHits(t, Terms(q))

\* the score of one chunk text: ten per phrase occurrence, one per term occurrence
Score(qr, raw) ==
  LET q == Normalize(qr)
      t == Lower(raw)
  IN IF t = <<>> THEN 0 ELSE Count(t, q) * 10 + TermHits(t, Terms(q))

\* the order of the heap items: (score, tie, chunk_obj) tuples, compared in turn
ItemLess(x, y) == x[1] < y[1] \/ (x[1] = y[1] /\ x[2] < y[2])

\* heap[0]
HeapMin(h) == CHOOSE x \in h : \A y \in h : x = y \/ ItemLess(x, y)

HeapMax(h) == CHOOSE x \in h : \A y \in h : x = y \/ ItemLess(y, x)

\* heapq.heappush(heap, item)
HeapPush(h, item) == h \cup {item}

\* heapq.heappushpop(heap, item): the smaller of item and heap[0] leaves
HeapPushPop(h, item) ==
  IF h # {} /\ ItemLess(HeapMin(h), item)
  THEN (h \ {HeapMin(h)}) \cup {item}
  ELSE h

\* Keep with a full heap left as it is
KeepFirstK(h, item, k) == IF Cardinality(h) < k THEN HeapPush(h, item) ELSE h

\* the push of one scored chunk into the bounded heap
Keep(h, item, k) == IF Cardinality(h) < k THEN HeapPush(h, item) ELSE HeapPushPop(h, item)

\* heapq.nlargest(n, heap): the n greatest items, greatest first
RECURSIVE NLargest(_, _)
NLargest(n, h) ==
  IF n <= 0 \/ h = {} THEN <<>>
  ELSE <<HeapMax(h)>> \o NLargest(n - 1, h \ {HeapMax(h)})

\* results = [t[2] for t in largest]
Results(h) ==
  LET largest == NLargest(Cardinality(h), h)
  IN [i \in 1..Len(largest) |-> largest[i][3]]

\* the chunk_obj built from a stored chunk
ChunkObj(ch) == [text |-> ch.text, chunk_id |-> ch.id]

Queries == Strs(SearchAlphabet, MaxQueryLen)
\* the stored chunk texts: empty, blank, one match in either case, two and three
Docs ==
  {<<>>, <<" ">>, <<"a">>, <<"A">>, <<"a", "a">>, <<"a", " ", "a", "A">>}

IngestIdle ==
  /\ chunk_size_chars = 1
  /\ min_chunk_chars = 0
  /\ pc = "idle"
  /\ text = <<>>
  /\ seed = 0
  /\ sentences = <<>>
  /\ chunks = <<>>
  /\ result = <<>>
  /\ parent = <<>>
  /\ calls = 0

InitSearch == IngestIdle /\ SearchIdle /\ FileIdle /\ SplitIdle

\* ReturnsEarly without the test of the query
ReturnsEarlyOnMissingDirOnly(qr, exists) == ~exists

\* the two early returns: "if not os.path.exists(DATA_DIR)" and "if not q"
ReturnsEarly(qr, exists) == ~exists \/ Normalize(qr) = <<>>

\* _local_text_search up to the scan: no data directory or an empty query returns []
Search ==
  /\ spc = "idle"
  /\ \E qr \in Queries, k \in 0..MaxTopK, exists \in BOOLEAN :
       /\ query' = qr
       /\ top_k' = k
       /\ data_dir_exists' = exists
       /\ spc' = IF ReturnsEarly(qr, exists) THEN "done" ELSE "scan"
  /\ UNCHANGED <<corpus, heap, tie_counter, results>>
  /\ UNCHANGED <<ingest_vars, file_vars, split_vars>>

\* the body of "for ch in chunks" on the next stored chunk
ScanChunk ==
  /\ spc = "scan"
  /\ Len(corpus) < MaxCorpus
  /\ \E doc \in Docs :
       LET ch == [id |-> Len(corpus) + 1, text |-> doc]
           score == Score(query, doc)
       IN /\ corpus' = Append(corpus, ch)
          /\ IF score <= 0
             THEN UNCHANGED <<heap, tie_counter>>
             ELSE /\ heap' = Keep(heap, <<score, tie_counter, ChunkObj(ch)>>, top_k)
                  /\ tie_counter' = tie_counter + 1
  /\ UNCHANGED <<data_dir_exists, spc, query, top_k, results>>
  /\ UNCHANGED <<ingest_vars, file_vars, split_vars>>

\* the files are exhausted: the heap is turned into the returned list
Finish ==
  /\ spc = "scan"
  /\ results' = Results(heap)
  /\ spc' = "done"
  /\ UNCHANGED <<data_dir_exists, query, top_k, corpus, heap, tie_counter>>
  /\ UNCHANGED <<ingest_vars, file_vars, split_vars>>

NextSearch == Search \/ ScanChunk \/ Finish

SpecSearch == InitSearch /\ [][NextSearch]_vars

\* ====================================================== search claims
SearchDone == spc = "done"

\* the stored chunks with a positive score for the query
Positive == {j \in 1..Len(corpus) : Score(query, corpus[j].text) > 0}

\* the stored chunks the returned list holds
Returned == {j \in 1..Len(corpus) : \E i \in 1..Len(results) : results[i] = ChunkObj(corpus[j])}

\* C9: a search with a non-empty trimmed query returns min(top_k, n) chunks, n the
\* number of stored chunks with a positive score: distinct stored chunks with a
\* positive score, in non-increasing score order, none of them scoring less than a
\* chunk left out.
C9_TopKByScore ==
  (SearchDone /\ Normalize(query) # <<>>) =>
    /\ Len(results) = Min(top_k, Cardinality(Positive))
    /\ Cardinality(Returned) = Len(results)
    /\ Returned \subseteq Positive
    /\ \A i \in 1..Len(results) : \E j \in Returned : results[i] = ChunkObj(corpus[j])
    /\ \A i \in 1..(Len(results) - 1) :
         Score(query, results[i].text) >= Score(query, results[i + 1].text)
    /\ \A j \in 1..Len(corpus) : \A r \in Returned :
         j \notin Returned => Score(query, corpus[j].text) <= Score(query, corpus[r].text)

\* C9 witness: a search returned top_k >= 1 chunks out of more positive ones, left
\* out a lower-scored one, and read a chunk with score 0.
C9_Witness ==
  /\ SearchDone /\ top_k >= 1 /\ Len(results) = top_k
  /\ Cardinality(Positive) > top_k
  /\ \E j \in Positive : \E r \in Returned :
       j \notin Returned /\ Score(query, corpus[j].text) < Score(query, corpus[r].text)
  /\ \E j \in 1..Len(corpus) : j \notin Positive

\* C10: returned chunks with equal scores stand in the order of the scan, the one
\* read earlier first.
C10_TiesInScanOrder ==
  SearchDone =>
    \A i, j \in 1..Len(results) :
      (i < j /\ Score(query, results[i].text) = Score(query, results[j].text))
        => results[i].chunk_id < results[j].chunk_id

\* =================================== a two-token query (spec: "brown fox")
\* the two-token queries: plain, and with an upper-case letter and blanks around
PhraseQueries == {<<"a", " ", "b">>, <<" ", "A", " ", "b", " ">>}

\* the stored texts: the phrase once, one token once, one token twelve and
\* thirteen times, both tokens without the phrase, nothing
PhraseDocs ==
  {<<>>, <<"a", " ", "b">>, <<"a">>, <<"b">>, <<"b", " ", "a">>,
   Rep("a", 12), Rep("a", 13)}

\* _local_text_search entered with a two-token query
SearchPhrase ==
  /\ spc = "idle"
  /\ \E qr \in PhraseQueries, k \in 0..MaxTopK :
       /\ query' = qr
       /\ top_k' = k
       /\ spc' = "scan"
  /\ UNCHANGED <<data_dir_exists, corpus, heap, tie_counter, results>>
  /\ UNCHANGED <<ingest_vars, file_vars, split_vars>>

\* the body of "for ch in chunks" on the next stored chunk
ScanPhraseChunk ==
  /\ spc = "scan"
  /\ Len(corpus) < MaxCorpus
  /\ \E doc \in PhraseDocs :
       LET ch == [id |-> Len(corpus) + 1, text |-> doc]
           score == Score(query, doc)
       IN /\ corpus' = Append(corpus, ch)
          /\ IF score <= 0
             THEN UNCHANGED <<heap, tie_counter>>
             ELSE /\ heap' = Keep(heap, <<score, tie_counter, ChunkObj(ch)>>, top_k)
                  /\ tie_counter' = tie_counter + 1
  /\ UNCHANGED <<data_dir_exists, spc, query, top_k, results>>
  /\ UNCHANGED <<ingest_vars, file_vars, split_vars>>

NextPhrase == SearchPhrase \/ ScanPhraseChunk \/ Finish

SpecPhrase == InitSearch /\ [][NextPhrase]_vars

\* the stored chunk j holds every term of the query
HoldsAllTerms(j) ==
  \A i \in 1..Len(Terms(Normalize(query))) :
    Count(Lower(corpus[j].text), Terms(Normalize(query))[i]) > 0

\* the stored chunk j holds the phrase once and each of the two terms once, and
\* no other stored chunk holds both terms
OnlyFullMatch(j) ==
  /\ Len(Terms(Normalize(query))) = 2
  /\ Count(Lower(corpus[j].text), Normalize(query)) = 1
  /\ \A i \in 1..2 : Count(Lower(corpus[j].text), Terms(Normalize(query))[i]) = 1
  /\ \A o \in 1..Len(corpus) : o # j => ~HoldsAllTerms(o)

\* C11 as stated: the only stored chunk holding both tokens (phrase once, each
\* token once) scores 12 and is the first result, whatever the other chunks hold.
\* It is taken here where no other chunk scores exactly 12, the order among equal
\* scores being the subject of C10.
C11_FullMatchAlwaysFirst ==
  (SearchDone /\ top_k >= 1) =>
    \A j \in 1..Len(corpus) :
      (/\ OnlyFullMatch(j)
       /\ \A o \in 1..Len(corpus) : o # j => Score(query, corpus[o].text) # 12) =>
        /\ Score(query, corpus[j].text) = 12
        /\ results # <<>> /\ results[1] = ChunkObj(corpus[j])

\* C11 amended: that chunk scores 10*1 + 1 + 1 = 12, and it is the first result
\* when top_k >= 1 and every other stored chunk scores less than 12.
C11_FullMatchFirstAmongLower ==
  SearchDone =>
    \A j \in 1..Len(corpus) :
      OnlyFullMatch(j) =>
        /\ Score(query, corpus[j].text) = 12
        /\ (/\ top_k >= 1
            /\ \A o \in 1..Len(corpus) : o # j => Score(query, corpus[o].text) < 12)
             => /\ results # <<>>
                /\ results[1] = ChunkObj(corpus[j])
                /\ \E it \in heap : it[1] = 12 /\ it[3] = results[1]

\* C11 witness: the full match was read after a lower-scored chunk that holds one
\* token, and came back first.
C11_Witness ==
  /\ SearchDone /\ top_k >= 1 /\ Len(corpus) >= 2
  /\ OnlyFullMatch(Len(corpus))
  /\ \E o \in 1..(Len(corpus) - 1) : Score(query, corpus[o].text) \in 1..11
  /\ \A o \in 1..(Len(corpus) - 1) : Score(query, corpus[o].text) < 12
  /\ results[1] = ChunkObj(corpus[Len(corpus)])

\* ================================================ the early returns
\* C12: a query that is empty after trimming, or a missing data directory, gives
\* an empty list for every top_k, and no stored chunk is read or kept.
C12_EmptyQueryOrNoDirGivesNothing ==
  (SearchDone /\ (Normalize(query) = <<>> \/ ~data_dir_exists)) =>
    /\ results = <<>>
    /\ heap = {}
    /\ corpus = <<>>

\* C12 witness: a search with a blank, non-empty query and top_k >= 1 over an
\* existing directory has returned.
C12_Witness ==
  /\ SearchDone /\ data_dir_exists /\ top_k >= 1
  /\ query # <<>> /\ Normalize(query) = <<>>

\* ================================================== process_file_bytes
MaxPages == 2
MaxFileSeed == 1

\* the page texts a parser can hand over; "t or ''" makes a missing text empty
PageTexts ==
  {<<>>, <<" ">>, <<"a">>, <<"a", ".", " ", "a">>, <<"a", "a", " ", "a", "a", "a">>}

PageLists == UNION {[1..n -> PageTexts] : n \in 0..MaxPages}

\* _aggregate_sentences_to_chunks: the aggregation loop, then the merge pass
_aggregate_sentences_to_chunks(sents, source_id, page, sd) ==
  MergePass(<<>>, EmittedChunks(sents, source_id, page, sd))

\* process_text as one call
process_text(t, source_id, sd) ==
  IF _split_into_sentences(t) = <<>>
  THEN Fallback(t, source_id, sd)
  ELSE _aggregate_sentences_to_chunks(_split_into_sentences(t), source_id, NoPage, sd)

\* what one pass of the loop adds to result_chunks
PageChunks(ft, page_text, idx, sd) ==
  IF ft = "pdf"
  THEN IF Strip(page_text) = <<>>
       THEN <<>>
       ELSE _aggregate_sentences_to_chunks(_split_into_sentences(page_text),
                                           SourceId, idx, sd)
  ELSE process_text(page_text, SourceId, sd)

\* process_file_bytes up to the loop: the type is detected and the bytes are parsed
ProcessFileBytes ==
  /\ fpc = "idle"
  /\ \E ft \in {"pdf", "text"} :
       /\ ftype' = ft
       /\ IF ft = "pdf"
          THEN pages' \in PageLists
          ELSE \E t \in PageTexts : pages' = <<t>>
  /\ p_idx' = 0
  /\ result_chunks' = <<>>
  /\ fpc' = IF pages' = <<>> THEN "done" ELSE "loop"
  /\ UNCHANGED <<ingest_vars, search_vars, split_vars>>

\* one pass of "for p_idx, page_text in enumerate(pages)" or "for t in texts";
\* the call returns after the last one
FilePage ==
  /\ fpc = "loop"
  /\ \E sd \in 0..MaxFileSeed :
       result_chunks' = result_chunks \o PageChunks(ftype, pages[p_idx + 1], p_idx, sd)
  /\ p_idx' = p_idx + 1
  /\ fpc' = IF p_idx + 1 = Len(pages) THEN "done" ELSE "loop"
  /\ UNCHANGED <<ftype, pages>>
  /\ UNCHANGED <<ingest_vars, search_vars, split_vars>>

NextFile == ProcessFileBytes \/ FilePage

SpecFile == InitIngest /\ [][NextFile]_vars

PdfDone == fpc = "done" /\ ftype = "pdf"

\* the chunks of result_chunks that carry page p, in order
RECURSIVE OfPage(_, _)
OfPage(cs, p) ==
  IF cs = <<>> THEN <<>>
  ELSE IF Head(cs).meta.page = p THEN <<Head(cs)>> \o OfPage(Tail(cs), p)
  ELSE OfPage(Tail(cs), p)

\* every page's chunks start at chunk_index 0 and carry the text of that page
PagesRestartAtZero ==
  \A p \in 0..(Len(pages) - 1) :
    /\ OfPage(result_chunks, p) # <<>> => ChunkIndex(OfPage(result_chunks, p)[1]) = 0
    /\ NoSpace(ConcatTexts(OfPage(result_chunks, p))) = NoSpace(pages[p + 1])

IdsDistinct ==
  \A i, j \in 1..Len(result_chunks) : i # j => result_chunks[i].id # result_chunks[j].id

\* the page loop alone: chunk_index restarts at 0 on every page and meta.page is
\* the page the text came from
PagesIndependent == PdfDone => PagesRestartAtZero

\* C13: for a multi-page source every page's chunk_index starts at 0, meta.page
\* carries the page number, and all chunk ids of the returned list are pairwise
\* distinct whatever the random part of the id is.
C13_PageLocalIndexAndDistinctIds ==
  PdfDone => (PagesRestartAtZero /\ IdsDistinct)

\* ============================================== eviction among ties
\* the stored chunks the heap holds
Retained == {j \in 1..Len(corpus) : \E it \in heap : it[3] = ChunkObj(corpus[j])}

\* C14: when more than top_k stored chunks have a positive score and several tie
\* at the lowest retained score, the heap holds the ones read earlier: a retained
\* chunk at that score has every earlier chunk of the same score retained too.
C14_EvictionKeepsEarlierTie ==
  (SearchDone /\ top_k >= 1 /\ Cardinality(Positive) > top_k) =>
    \A i, j \in Positive :
      (/\ i < j
       /\ Score(query, corpus[i].text) = Score(query, corpus[j].text)
       /\ Score(query, corpus[j].text) = HeapMin(heap)[1]
       /\ j \in Retained)
        => i \in Retained

\* ============================== _split_long_text, one loop pass at a time
MaxNegChunkSize == 1

\* the constructor takes any integer
ChunkSizes == (0 - MaxNegChunkSize)..MaxChunkSize

\* the sentences _split_into_sentences hands to the aggregation loop
SplitInputs ==
  UNION {{_split_into_sentences(t)[i] : i \in 1..Len(_split_into_sentences(t))} :
           t \in Texts}

InitSplit ==
  /\ chunk_size_chars \in ChunkSizes
  /\ min_chunk_chars = 0
  /\ pc = "idle"
  /\ text = <<>>
  /\ seed = 0
  /\ sentences = <<>>
  /\ chunks = <<>>
  /\ result = <<>>
  /\ parent = <<>>
  /\ calls = 0
  /\ SearchIdle
  /\ FileIdle
  /\ SplitIdle

\* the call up to the loop: a text within the limit is returned as it is
SplitLongText ==
  /\ lpc = "idle"
  /\ \E t \in SplitInputs :
       /\ long_text' = t
       /\ IF Len(t) <= chunk_size_chars
          THEN split_parts' = <<t>> /\ lpc' = "done"
          ELSE split_parts' = <<>> /\ lpc' = IF 0 < Len(t) THEN "window" ELSE "done"
  /\ split_start' = 0
  /\ split_end' = 0
  /\ UNCHANGED <<ingest_vars, search_vars, file_vars>>

\* the first half of a loop pass: end is set, and moved back to the last space.
\* A call is followed until parts holds more pieces than the text has characters.
SplitWindow ==
  /\ lpc = "window"
  /\ Len(split_parts) <= Len(long_text)
  /\ split_end' = SliceEnd(long_text, split_start)
  /\ lpc' = "slice"
  /\ UNCHANGED <<long_text, split_start, split_parts>>
  /\ UNCHANGED <<ingest_vars, search_vars, file_vars>>

\* the second half: the part is cut and kept, start = end, the loop test
SplitSlice ==
  /\ lpc = "slice"
  /\ LET part == Strip(PySlice(long_text, split_start, split_end))
     IN split_parts' = IF part # <<>> THEN Append(split_parts, part) ELSE split_parts
  /\ split_start' = split_end
  /\ lpc' = IF split_end < Len(long_text) THEN "window" ELSE "done"
  /\ UNCHANGED <<long_text, split_end>>
  /\ UNCHANGED <<ingest_vars, search_vars, file_vars>>

NextSplit == SplitLongText \/ SplitWindow \/ SplitSlice

SpecSplit == InitSplit /\ [][NextSplit]_vars

\* the loop pass by pass gives what the loop as a whole gives
SplitStepsAgree ==
  (lpc = "done" /\ chunk_size_chars >= 1) => split_parts = _split_long_text(long_text)

\* the window text[start : start + chunk_size_chars] of the current pass
Window == PySlice(long_text, split_start, split_start + chunk_size_chars)

HasSpace(s) == \E i \in 1..Len(s) : s[i] = " "

\* the slice boundary of the current pass lies between two non-space characters
CutsWord ==
  /\ 0 < split_end /\ split_end < Len(long_text)
  /\ long_text[split_end] # " "
  /\ long_text[split_end + 1] # " "

\* C15: a slice boundary of _split_long_text falls between two non-space
\* characters only if the window text[start : start + chunk_size_chars] holds no
\* space at all.
C15_WordCutOnlyWithoutSpace ==
  (lpc = "slice" /\ chunk_size_chars >= 1 /\ CutsWord) => ~HasSpace(Window)

\* ===================================== runs of small chunks in the merge pass
MaxCascadeMin == 4

\* texts whose emitted chunks hold runs of one-character chunks: parts of a
\* sentence with wide gaps, and a flushed buffer followed by such parts
CascadeTexts ==
  {<<"a", " ", " ", " ", "a", " ", " ", " ", "a">>,
   <<".", " ", "a", " ", " ", " ", " ", "a">>,
   <<"a", " ", "a", " ", "a">>,
   <<"a", ".", " ", "a", ".", " ", "a", ".">>,
   <<"a", "a", "a", " ", "a", " ", " ", " ", "a", " ", " ", " ", "a">>,
   <<"a", " ", " ", " ", "a", " ", " ", " ", "a", " ", " ", " ", "a">>}

InitCascade ==
  /\ chunk_size_chars \in 1..MaxChunkSize
  /\ min_chunk_chars \in 0..MaxCascadeMin
  /\ pc = "idle"
  /\ text = <<>>
  /\ seed = 0
  /\ sentences = <<>>
  /\ chunks = <<>>
  /\ result = <<>>
  /\ parent = <<>>
  /\ calls = 0
  /\ SearchIdle
  /\ FileIdle
  /\ SplitIdle

\* a caller hands one of these texts to process_text
ProcessCascadeText ==
  /\ pc = "idle"
  /\ \E t \in CascadeTexts : Begin(t, 0, <<>>)

NextCascade == ProcessCascadeText \/ Aggregate \/ Merge

SpecCascade == InitCascade /\ [][NextCascade]_vars

\* chunks[a..b] is a run of three or more emitted chunks, each shorter than
\* min_chunk_chars, whose space-joined length is within chunk_size_chars
SmallRun(a, b) ==
  /\ 1 <= a /\ a + 2 <= b /\ b <= Len(chunks)
  /\ \A k \in a..b : CharLen(chunks[k]) < min_chunk_chars
  /\ Len(JoinedTexts(chunks, a, b)) <= chunk_size_chars

\* the emitted chunks that make up result[r]: chunks[OutStart(r)..OutEnd(r)]
OutStart(r) == ChunkIndex(result[r]) + 1
OutEnd(r) == IF r < Len(result) THEN ChunkIndex(result[r + 1]) ELSE Len(chunks)

\* chunks[a..b] ended up in one returned chunk
InOneChunk(a, b) == \E r \in 1..Len(result) : OutStart(r) <= a /\ b <= OutEnd(r)

\* every returned chunk is the space-join of its emitted chunks
ResultIsJoinOfRanges ==
  \A r \in 1..Len(result) :
    /\ OutStart(r) <= OutEnd(r)
    /\ result[r].text = JoinedTexts(chunks, OutStart(r), OutEnd(r))

\* at every chunk of the run after the first, the returned chunk it would join
\* is, with all it took in so far, shorter than min_chunk_chars and the merge
\* stays within chunk_size_chars
StillSmallAlongRun(a, b) ==
  \E r \in 1..Len(result) :
    /\ OutStart(r) <= a /\ a <= OutEnd(r)
    /\ \A k \in a..(b - 1) :
         /\ Len(JoinedTexts(chunks, OutStart(r), k)) < min_chunk_chars
         /\ Len(JoinedTexts(chunks, OutStart(r), k + 1)) <= chunk_size_chars

\* C16: every run of three or more consecutive emitted chunks, each shorter than
\* min_chunk_chars and with a space-joined length within chunk_size_chars, is
\* collapsed into one returned chunk.
C16_SmallRunFullyCollapsed ==
  (Done /\ chunks # <<>>) =>
    \A a, b \in 1..Len(chunks) : SmallRun(a, b) => InOneChunk(a, b)

\* C16 as amended: such a run ends up in one returned chunk exactly when the
\* chunk being grown stays shorter than min_chunk_chars (and within
\* chunk_size_chars) up to the last but one chunk of the run; the merge stops at
\* the first chunk where the grown chunk has reached min_chunk_chars.
C16_RunCollapsedWhileStillSmall ==
  (Done /\ chunks # <<>>) =>
    /\ ResultIsJoinOfRanges
    /\ \A a, b \in 1..Len(chunks) :
         SmallRun(a, b) => (InOneChunk(a, b) <=> StillSmallAlongRun(a, b))

\* C16 witness: the merge pass collapsed a run of three small chunks into one
\* returned chunk.
C16_Witness ==
  /\ Done /\ chunks # <<>>
  /\ \E a, b \in 1..Len(chunks) :
       /\ SmallRun(a, b) /\ InOneChunk(a, b)
       /\ \E r \in 1..Len(result) :
            OutStart(r) = a /\ OutEnd(r) = b /\ CharLen(result[r]) = Len(JoinedTexts(chunks, a, b))

\* C17: chunking terminates for every integer chunk_size_chars: every pass of the
\* while loop of _split_long_text moves start strictly forward (the end it
\* assigns to start is greater than start), until start >= len(text).
C17_EveryPassAdvancesStart ==
  lpc = "slice" => split_end > split_start

\* the same for the sizes of at least 1
PassAdvancesForPositiveSize ==
  (lpc = "slice" /\ chunk_size_chars >= 1) => split_end > split_start

====
